---- MODULE Spec2Model ----
(***************************************************************************)
(* Model of faker-script.py: the synthetic supply-chain data generator.    *)
(* The script is one sequential pipeline: supplier generation, material    *)
(* generation, BOM edge generation, ASL assignment, purchase-order loop,   *)
(* export.  Every random draw of the script is a nondeterministic choice   *)
(* from a small sample set of the draw's range.  Dates are day numbers     *)
(* counted from 2024-01-01.  Identifiers are tuples instead of f-strings:  *)
(* "SUP_CN_00001" is <<"CN", 1>>, "MAT_T3_00002" is <<3, 2>>.  Opaque      *)
(* labels and prices (name, description, cost_estimate, quantity of a BOM  *)
(* edge, unit_price) are left out of the records.  A nullable date is a    *)
(* sequence: <<>> is None, <<d>> is the date d.                            *)
(***************************************************************************)
EXTENDS Integers, Sequences, FiniteSets, TLC

VARIABLES
    NUM_SUPPLIERS, NUM_MATERIALS, TARGET_PO_COUNT,
    TIER_DISTRIBUTION, COUNTRY_WEIGHTS,
    pc, error,
    dominance_scores, suppliers,
    materials,
    mats_by_tier, tier, pidx, parent, num_children, children, bom_edges,
    mat_supplier_map, mat_idx,
    current_po_count, po_id_counter, order_records, outcomes,
    exported

config == <<NUM_SUPPLIERS, NUM_MATERIALS, TARGET_PO_COUNT,
            TIER_DISTRIBUTION, COUNTRY_WEIGHTS>>
supplierVars == <<dominance_scores, suppliers>>
bomVars == <<mats_by_tier, tier, pidx, parent, num_children, children, bom_edges>>
aslVars == <<mat_supplier_map, mat_idx>>
poVars == <<current_po_count, po_id_counter, order_records, outcomes>>
vars == <<config, pc, error, supplierVars, materials, bomVars, aslVars,
          poVars, exported>>

----------------------------------------------------------------------------
(* Bounds of the model *)

MaxSuppliers == 2       \* NUM_SUPPLIERS of the pipeline runs
MaxMaterials == 2       \* NUM_MATERIALS of the pipeline runs
MaxPO == 1              \* TARGET_PO_COUNT
MaxBomMaterials == 4    \* NUM_MATERIALS of the BOM builder runs

(* Program constants *)

PO_ID_START == 100000
START_DATE == 0        \* date(2024, 1, 1)
END_DATE == 730        \* date(2025, 12, 31)
current_date == 669    \* date(2025, 10, 31)
LEAD_MIN == 14
LEAD_MAX == 90
CAPACITY_MAX == 50
NUM_TIERS == 5
ASL_MIN == 1
ASL_MAX == 3

----------------------------------------------------------------------------
(* Helpers *)

Max(a, b) == IF a >= b THEN a ELSE b
Min(a, b) == IF a <= b THEN a ELSE b

RECURSIVE SumSeq(_)
SumSeq(s) == IF s = <<>> THEN 0 ELSE Head(s) + SumSeq(Tail(s))

Range(s) == {s[i] : i \in 1..Len(s)}

NoError == [type |-> "none", line |-> 0]
Raise(type, line) == [type |-> type, line |-> line]

None == <<>>
Some(d) == <<d>>

----------------------------------------------------------------------------
(* Configuration samples.  Probabilities and weights are in percent.       *)

ActualTierDistribution == <<5, 10, 20, 30, 35>>
ActualCountryWeights ==
    << [country |-> "CN", weight |-> 45], [country |-> "KR", weight |-> 15],
       [country |-> "JP", weight |-> 10], [country |-> "DE", weight |-> 10],
       [country |-> "US", weight |-> 10], [country |-> "XX", weight |-> 10] >>

TierDistributionSamples ==
    { <<0, 0, 0, 50, 50>>,      \* valid, two tiers only
      <<0, 0, 0, 50, 40>> }     \* does not sum to 1
CountryWeightSamples ==
    { << [country |-> "CN", weight |-> 100] >>,
      << >> }                   \* empty weight table

ZipfSamples == {1, 4}

----------------------------------------------------------------------------
(* Supplier generation, lines 97-118 *)

\* (dominance_scores / dominance_scores.max()) * 50, np.maximum(., 1), astype(int)
CapacityScore(d, mx) == Max((d * CAPACITY_MAX) \div mx, 1)

RECURSIVE SeqMax(_)
SeqMax(s) == IF Len(s) = 1 THEN s[1] ELSE Max(Head(s), SeqMax(Tail(s)))

Normalise(raw) == [i \in 1..Len(raw) |-> CapacityScore(raw[i], SeqMax(raw))]

\* lines 97-105: the zipf draw and its normalisation; max() of an empty
\* array raises ValueError
DrawDominance(zipfs) ==
    /\ pc = "start"
    /\ IF NUM_SUPPLIERS = 0
       THEN /\ pc' = "error"
            /\ error' = Raise("ValueError", 104)
            /\ UNCHANGED dominance_scores
       ELSE /\ \E raw \in [1..NUM_SUPPLIERS -> zipfs] :
                 dominance_scores' = Normalise(raw)
            /\ pc' = "suppliers"
            /\ UNCHANGED error
    /\ UNCHANGED <<config, suppliers, materials, bomVars, aslVars, poVars, exported>>

\* random.choices(countries, weights=weights, k=1)[0]
CountryChoices == {COUNTRY_WEIGHTS[i].country :
                     i \in {j \in 1..Len(COUNTRY_WEIGHTS) : COUNTRY_WEIGHTS[j].weight > 0}}
TotalWeight == SumSeq([i \in 1..Len(COUNTRY_WEIGHTS) |-> COUNTRY_WEIGHTS[i].weight])

\* lines 107-116: one iteration of the supplier loop
GenSupplier ==
    /\ pc = "suppliers"
    /\ Len(suppliers) < NUM_SUPPLIERS
    /\ LET i == Len(suppliers) IN
       IF Len(COUNTRY_WEIGHTS) = 0
       THEN /\ pc' = "error"
            /\ error' = Raise("IndexError", 108)
            /\ UNCHANGED suppliers
       ELSE IF TotalWeight <= 0
       THEN /\ pc' = "error"
            /\ error' = Raise("ValueError", 108)
            /\ UNCHANGED suppliers
       ELSE /\ \E country \in CountryChoices :
                 suppliers' = Append(suppliers,
                     [supplier_id |-> <<country, i + 1>>,
                      country |-> country,
                      capacity_score |-> dominance_scores[i + 1]])
            /\ pc' = IF i + 1 = NUM_SUPPLIERS THEN "materials" ELSE "suppliers"
            /\ UNCHANGED error
    /\ UNCHANGED <<config, dominance_scores, materials, bomVars, aslVars, poVars, exported>>

----------------------------------------------------------------------------
(* Material generation, lines 136-153 *)

ProbabilitiesValidUnchecked(p) == TRUE

\* the checks np.random.choice makes on p
ProbabilitiesValid(p) ==
    /\ Len(p) = NUM_TIERS
    /\ \A i \in 1..Len(p) : p[i] >= 0
    /\ SumSeq(p) = 100

TierChoices == {t \in 0..(NUM_TIERS - 1) : t + 1 <= Len(TIER_DISTRIBUTION)
                                           /\ TIER_DISTRIBUTION[t + 1] > 0}

BaseUnit(t) == IF t < 4 THEN "EA" ELSE "KG"

Material(t, i) == [material_id |-> <<t, i>>, tier_level |-> t, base_unit |-> BaseUnit(t)]

\* lines 138-151: one iteration of the material loop
GenMaterial ==
    /\ pc = "materials"
    /\ Len(materials) < NUM_MATERIALS
    /\ LET i == Len(materials) IN
       IF ~ProbabilitiesValid(TIER_DISTRIBUTION)
       THEN /\ pc' = "error"
            /\ error' = Raise("ValueError", 139)
            /\ UNCHANGED materials
       ELSE /\ \E t \in TierChoices :
                 materials' = Append(materials, Material(t, i + 1))
            /\ UNCHANGED <<pc, error>>
    /\ UNCHANGED <<config, supplierVars, bomVars, aslVars, poVars, exported>>

----------------------------------------------------------------------------
(* BOM edge generation, lines 168-203 *)

TiersPresent == {materials[i].tier_level : i \in 1..Len(materials)}

RECURSIVE IdsOfTier(_, _)
IdsOfTier(ms, t) ==
    IF ms = <<>> THEN <<>>
    ELSE IF Head(ms).tier_level = t
         THEN <<Head(ms).material_id>> \o IdsOfTier(Tail(ms), t)
         ELSE IdsOfTier(Tail(ms), t)

\* df_materials.groupby("tier_level")["material_id"].apply(list).to_dict():
\* only the tiers that have a material are keys
GroupedByTier == [t \in TiersPresent |-> IdsOfTier(materials, t)]

\* mats_by_tier.get(t, [])
MatsByTierGet(t) == IF t \in DOMAIN mats_by_tier THEN mats_by_tier[t] ELSE <<>>

Parents(t) == MatsByTierGet(t)

PotentialChildrenSameTier(t) == MatsByTierGet(t)

PotentialChildren(t) == MatsByTierGet(t + 1)

NumChildrenNoFloor(draw) == draw

\* max(1, int(np.random.poisson(...)))
NumChildren(draw) == Max(1, draw)

\* k distinct elements of pool, in any order: random.sample(pool, k) and
\* np.random.choice(pool, size=k, replace=False)
DistinctSamples(pool, k) ==
    { [i \in 1..k |-> pool[f[i]]] :
        f \in { g \in [1..k -> 1..Len(pool)] :
                  \A a, b \in 1..k : a # b => g[a] # g[b] } }

EdgesOf(p, ch) == [i \in 1..Len(ch) |-> [parent_material_id |-> p,
                                         child_material_id |-> ch[i]]]

\* lines 168-170 (after the material loop has ended): an empty DataFrame has
\* no tier_level column and groupby raises KeyError
GroupByTier ==
    /\ pc = "materials"
    /\ Len(materials) = NUM_MATERIALS
    /\ IF materials = <<>>
       THEN /\ pc' = "error"
            /\ error' = Raise("KeyError", 170)
            /\ UNCHANGED <<mats_by_tier, tier, pidx>>
       ELSE /\ mats_by_tier' = GroupedByTier
            /\ tier' = 0
            /\ pidx' = 1
            /\ pc' = "bom"
            /\ UNCHANGED error
    /\ UNCHANGED <<config, supplierVars, materials, parent, num_children,
                   children, bom_edges, aslVars, poVars, exported>>

\* line 178: if not potential_children: continue
BomSkipTier ==
    /\ pc = "bom"
    /\ tier < 4
    /\ PotentialChildren(tier) = <<>>
    /\ tier' = tier + 1
    /\ pidx' = 1
    /\ pc' = IF tier + 1 = 4 THEN "asl" ELSE "bom"
    /\ UNCHANGED <<config, error, supplierVars, materials, mats_by_tier, parent,
                   num_children, children, bom_edges, aslVars, poVars, exported>>

\* lines 180-200: one parent of the current tier
BomParent(poissons) ==
    /\ pc = "bom"
    /\ tier < 4
    /\ PotentialChildren(tier) # <<>>
    /\ pidx <= Len(Parents(tier))
    /\ \E draw \in poissons :
         LET p == Parents(tier)[pidx]
             pool == PotentialChildren(tier)
             n == NumChildren(draw)
         IN /\ parent' = p
            /\ num_children' = n
            /\ IF tier = 3
               THEN IF n > Len(pool)
                    THEN \* replace=False with size > population
                         /\ pc' = "error"
                         /\ error' = Raise("ValueError", 188)
                         /\ UNCHANGED <<children, bom_edges, pidx>>
                    ELSE /\ \E ch \in DistinctSamples(pool, n) :
                              /\ children' = ch
                              /\ bom_edges' = bom_edges \o EdgesOf(p, ch)
                         /\ pidx' = pidx + 1
                         /\ UNCHANGED <<pc, error>>
               ELSE /\ \E ch \in DistinctSamples(pool, Min(Len(pool), n)) :
                         /\ children' = ch
                         /\ bom_edges' = bom_edges \o EdgesOf(p, ch)
                    /\ pidx' = pidx + 1
                    /\ UNCHANGED <<pc, error>>
    /\ UNCHANGED <<config, supplierVars, materials, mats_by_tier, tier,
                   aslVars, poVars, exported>>

\* line 180 exhausted: next iteration of "for tier in range(4)"
BomNextTier ==
    /\ pc = "bom"
    /\ tier < 4
    /\ PotentialChildren(tier) # <<>>
    /\ pidx > Len(Parents(tier))
    /\ tier' = tier + 1
    /\ pidx' = 1
    /\ pc' = IF tier + 1 = 4 THEN "asl" ELSE "bom"
    /\ UNCHANGED <<config, error, supplierVars, materials, mats_by_tier, parent,
                   num_children, children, bom_edges, aslVars, poVars, exported>>

----------------------------------------------------------------------------
(* ASL assignment, lines 215-241 *)

\* df_suppliers.to_dict('records'), df_materials.to_dict('records')
supplier_list == suppliers
material_list == materials

\* random.choices(supplier_list, weights=capacity_score, k=k)
WeightedCandidates(k) ==
    [1..k -> {i \in 1..Len(supplier_list) : supplier_list[i].capacity_score > 0}]

\* lines 235-241: one material
AssignASL(ks) ==
    /\ pc = "asl"
    /\ mat_idx <= Len(material_list)
    /\ LET mat == material_list[mat_idx] IN
       \E k \in ks : \E c \in WeightedCandidates(k) :
          LET candidates == [i \in 1..k |-> supplier_list[c[i]].supplier_id] IN
          mat_supplier_map' =
              [m \in DOMAIN mat_supplier_map \cup {mat.material_id} |->
                  IF m = mat.material_id THEN candidates ELSE mat_supplier_map[m]]
    /\ mat_idx' = mat_idx + 1
    /\ pc' = IF mat_idx = Len(material_list) THEN "po" ELSE "asl"
    /\ UNCHANGED <<config, error, supplierVars, materials, bomVars, poVars, exported>>

----------------------------------------------------------------------------
(* Purchase-order loop, lines 249-302 *)

\* Sample sets of the draws of one iteration.  Fractions are in percent.
OrderInputsWide ==
    [dates |-> {START_DATE, current_date - LEAD_MAX - 1, current_date - LEAD_MAX,
                current_date - LEAD_MIN - 1, current_date - LEAD_MIN,
                current_date - LEAD_MIN + 1, current_date, END_DATE},
     leads |-> {LEAD_MIN, LEAD_MIN + 1, LEAD_MAX},
     uniformQty |-> {1, 2, 10, 100},
     paretoScaled |-> {0, 149},
     fractions |-> {10, 50, 90},
     fullOffsets |-> {-2, 10},
     partialOffsets |-> {1, 15}]

OrderInputsNarrow ==
    [dates |-> {current_date - LEAD_MIN, current_date - LEAD_MIN + 1},
     leads |-> {LEAD_MIN},
     uniformQty |-> {1, 10},
     paretoScaled |-> {},
     fractions |-> {50},
     fullOffsets |-> {0},
     partialOffsets |-> {1}]

LoopContinuesInclusive == current_po_count <= TARGET_PO_COUNT

\* line 253: while current_po_count < TARGET_PO_COUNT
LoopContinues == current_po_count < TARGET_PO_COUNT

ValidSuppliersAnyMaterial(mat) == [i \in 1..Len(supplier_list) |-> supplier_list[i].supplier_id]

\* line 257: mat_supplier_map[mat['material_id']]
ValidSuppliers(mat) == mat_supplier_map[mat.material_id]

IsOpenOrderInclusive(due_date) == due_date >= current_date

\* line 269: if due_date > current_date
IsOpenOrder(due_date) == due_date > current_date

\* line 267: int(np.random.pareto(a=1.16) * 50) + 1 if is_bulk else random.randint(1, 100)
QuantitiesOrdered(in) == {x + 1 : x \in in.paretoScaled} \cup in.uniformQty

\* line 280: int(quantity_ordered * random.uniform(0.1, 0.9))
PartialQuantity(quantity_ordered, fraction) == (quantity_ordered * fraction) \div 100

\* lines 269-284: the results the fulfillment branch can produce
Fulfillments(in, due_date, quantity_ordered) ==
    IF IsOpenOrder(due_date)
    THEN { [status |-> "Open", quantity_received |-> 0, receipt_date |-> None] }
    ELSE { [status |-> "Full", quantity_received |-> quantity_ordered,
            receipt_date |-> Some(due_date + off)] : off \in in.fullOffsets }
         \cup
         { [status |-> "Partial",
            quantity_received |-> PartialQuantity(quantity_ordered, fo[1]),
            receipt_date |-> Some(due_date + fo[2])] :
              fo \in in.fractions \X in.partialOffsets }
         \cup
         { [status |-> "Missing", quantity_received |-> 0, receipt_date |-> None] }

\* lines 253-302: one iteration of the while loop
OrderIteration(in) ==
    /\ pc = "po"
    /\ LoopContinues
    /\ \E mi \in 1..Len(material_list) :
         LET mat == material_list[mi]
             valid_suppliers == ValidSuppliers(mat)
         IN \E si \in 1..Len(valid_suppliers), po_date \in in.dates,
               lead_time \in in.leads, quantity_ordered \in QuantitiesOrdered(in) :
              LET due_date == po_date + lead_time IN
              \E f \in Fulfillments(in, due_date, quantity_ordered) :
                 /\ order_records' = Append(order_records,
                       [po_id |-> po_id_counter,
                        supplier_id |-> valid_suppliers[si],
                        material_id |-> mat.material_id,
                        order_date |-> po_date,
                        due_date |-> due_date,
                        receipt_date |-> f.receipt_date,
                        quantity_ordered |-> quantity_ordered,
                        quantity_received |-> f.quantity_received])
                 /\ outcomes' = Append(outcomes, f.status)
    /\ po_id_counter' = po_id_counter + 1
    /\ current_po_count' = current_po_count + 1
    /\ UNCHANGED <<config, pc, error, supplierVars, materials, bomVars, aslVars, exported>>

\* lines 305-331: the loop has ended; the four record sets are written
Export ==
    /\ pc = "po"
    /\ ~LoopContinues
    /\ exported' = [suppliers |-> Len(suppliers), materials |-> Len(materials),
                    bom_relationships |-> Len(bom_edges),
                    order_records |-> Len(order_records)]
    /\ pc' = "done"
    /\ UNCHANGED <<config, error, supplierVars, materials, bomVars, aslVars, poVars>>

NotExported == [suppliers |-> 0, materials |-> 0, bom_relationships |-> 0,
                order_records |-> 0]

----------------------------------------------------------------------------
(* The whole pipeline, from any configuration of the sample sets *)

EmptyState ==
    /\ error = NoError
    /\ dominance_scores = <<>>
    /\ suppliers = <<>>
    /\ materials = <<>>
    /\ mats_by_tier = <<>>
    /\ tier = 0
    /\ pidx = 1
    /\ parent = None
    /\ num_children = 0
    /\ children = <<>>
    /\ bom_edges = <<>>
    /\ mat_supplier_map = <<>>
    /\ mat_idx = 1
    /\ current_po_count = 0
    /\ po_id_counter = PO_ID_START
    /\ order_records = <<>>
    /\ outcomes = <<>>
    /\ exported = NotExported

Init ==
    /\ NUM_SUPPLIERS \in 0..MaxSuppliers
    /\ NUM_MATERIALS \in 0..MaxMaterials
    /\ TARGET_PO_COUNT \in 0..MaxPO
    /\ TIER_DISTRIBUTION \in TierDistributionSamples
    /\ COUNTRY_WEIGHTS \in CountryWeightSamples
    /\ pc = "start"
    /\ EmptyState

PoissonSamples == {0, 1, 2, 3}
PoissonSamplesNarrow == {0, 2}

Next ==
    \/ DrawDominance(ZipfSamples)
    \/ GenSupplier
    \/ GenMaterial
    \/ GroupByTier
    \/ BomSkipTier
    \/ BomParent(PoissonSamplesNarrow)
    \/ BomNextTier
    \/ AssignASL({ASL_MIN})
    \/ OrderIteration(OrderInputsNarrow)
    \/ Export

Spec == Init /\ [][Next]_vars

----------------------------------------------------------------------------
(* The BOM builder alone, from any partition of the materials into tiers:  *)
(* the state at the end of the material loop.                              *)

SampleSuppliers(raw, countries) ==
    [i \in 1..Len(raw) |-> [supplier_id |-> <<countries[i], i>>,
                            country |-> countries[i],
                            capacity_score |-> Normalise(raw)[i]]]

InitBOM ==
    /\ NUM_SUPPLIERS = 1
    /\ NUM_MATERIALS \in 0..MaxBomMaterials
    /\ TARGET_PO_COUNT = 0
    /\ TIER_DISTRIBUTION = ActualTierDistribution
    /\ COUNTRY_WEIGHTS = ActualCountryWeights
    /\ pc = "materials"
    /\ error = NoError
    /\ dominance_scores = Normalise(<<1>>)
    /\ suppliers = SampleSuppliers(<<1>>, <<"CN">>)
    /\ \E tiers \in [1..NUM_MATERIALS -> 0..(NUM_TIERS - 1)] :
          materials = [i \in 1..NUM_MATERIALS |-> Material(tiers[i], i)]
    /\ mats_by_tier = <<>>
    /\ tier = 0
    /\ pidx = 1
    /\ parent = None
    /\ num_children = 0
    /\ children = <<>>
    /\ bom_edges = <<>>
    /\ mat_supplier_map = <<>>
    /\ mat_idx = 1
    /\ current_po_count = 0
    /\ po_id_counter = PO_ID_START
    /\ order_records = <<>>
    /\ outcomes = <<>>
    /\ exported = NotExported

NextBOM ==
    \/ GroupByTier
    \/ BomSkipTier
    \/ BomParent(PoissonSamples)
    \/ BomNextTier

SpecBOM == InitBOM /\ [][NextBOM]_vars

----------------------------------------------------------------------------
(* ASL assignment and the order loop, from the state at the end of the BOM *)
(* builder of a run with two suppliers and two raw materials.              *)

RawMaterials(n) == [i \in 1..n |-> Material(4, i)]

AfterBOM(sups, raw, mats) ==
    /\ NUM_SUPPLIERS = Len(sups)
    /\ NUM_MATERIALS = Len(mats)
    /\ TIER_DISTRIBUTION = ActualTierDistribution
    /\ COUNTRY_WEIGHTS = ActualCountryWeights
    /\ error = NoError
    /\ dominance_scores = Normalise(raw)
    /\ suppliers = sups
    /\ materials = mats
    /\ mats_by_tier = [t \in {4} |-> [i \in 1..Len(mats) |-> mats[i].material_id]]
    /\ tier = 4
    /\ pidx = 1
    /\ parent = None
    /\ num_children = 0
    /\ children = <<>>
    /\ bom_edges = <<>>
    /\ current_po_count = 0
    /\ po_id_counter = PO_ID_START
    /\ order_records = <<>>
    /\ outcomes = <<>>
    /\ exported = NotExported

OrderInputsASL ==
    [dates |-> {current_date - LEAD_MIN},
     leads |-> {LEAD_MIN, LEAD_MIN + 1},
     uniformQty |-> {10},
     paretoScaled |-> {},
     fractions |-> {50},
     fullOffsets |-> {0},
     partialOffsets |-> {1}]

InitPO ==
    /\ AfterBOM(SampleSuppliers(<<1, 4>>, <<"CN", "KR">>), <<1, 4>>, RawMaterials(2))
    /\ TARGET_PO_COUNT \in 0..MaxPO
    /\ pc = "asl"
    /\ mat_supplier_map = <<>>
    /\ mat_idx = 1

NextPO ==
    \/ AssignASL(ASL_MIN..ASL_MAX)
    \/ OrderIteration(OrderInputsASL)
    \/ Export

SpecPO == InitPO /\ [][NextPO]_vars

\* the script runs each statement to completion: a loop that can step does
SpecPOFair == SpecPO /\ WF_vars(NextPO)

----------------------------------------------------------------------------
(* The order loop alone over the wide sample sets, from the state at the   *)
(* end of the ASL assignment of a run with one supplier and one material.  *)

InitFulfil ==
    /\ AfterBOM(SampleSuppliers(<<1>>, <<"CN">>), <<1>>, RawMaterials(1))
    /\ TARGET_PO_COUNT \in 0..MaxPO
    /\ pc = "po"
    /\ mat_supplier_map = [m \in {<<4, 1>>} |-> << <<"CN", 1>> >>]
    /\ mat_idx = 2

NextFulfil ==
    \/ OrderIteration(OrderInputsWide)
    \/ Export

SpecFulfil == InitFulfil /\ [][NextFulfil]_vars

----------------------------------------------------------------------------
(* Properties *)

MaterialIds == {materials[i].material_id : i \in 1..Len(materials)}

\* the tier_level of the material with this material_id
TierOf(id) == (CHOOSE m \in Range(materials) : m.material_id = id).tier_level

IdsInTier(t) == {m.material_id : m \in {x \in Range(materials) : x.tier_level = t}}

ChildrenOf(id) == {e.child_material_id :
                     e \in {x \in Range(bom_edges) : x.parent_material_id = id}}

RECURSIVE Descendants(_, _)
Descendants(ids, n) ==
    IF n = 0 THEN ids
    ELSE LET next == UNION {ChildrenOf(id) : id \in ids}
         IN next \cup Descendants(next, n - 1)

NoCycle == \A id \in MaterialIds :
              id \notin Descendants(ChildrenOf(id), Len(materials))

BomComplete == pc = "asl"

AllCollectionsEmpty ==
    /\ suppliers = <<>>
    /\ materials = <<>>
    /\ bom_edges = <<>>
    /\ mat_supplier_map = <<>>
    /\ order_records = <<>>

LaterStagesEmpty ==
    /\ materials = <<>>
    /\ bom_edges = <<>>
    /\ mat_supplier_map = <<>>
    /\ order_records = <<>>

Resolved(r) == r.due_date <= current_date

\* C1: every purchase order's supplier_id is in the ASL candidate list stored
\* for the order's material_id, and the ASL mapping does not change once the
\* order loop has started.
C1_SupplierInASL ==
    /\ [](\A i \in 1..Len(order_records) :
            /\ order_records[i].material_id \in DOMAIN mat_supplier_map
            /\ order_records[i].supplier_id \in
                   Range(mat_supplier_map[order_records[i].material_id]))
    /\ [][pc = "po" => mat_supplier_map' = mat_supplier_map]_vars

\* an order of a material whose ASL list leaves out one of the suppliers
C1_Witness ==
    /\ pc = "done"
    /\ \E i \in 1..Len(order_records) : \E s \in Range(suppliers) :
          s.supplier_id \notin Range(mat_supplier_map[order_records[i].material_id])

\* C2: a resolved order (due date not after the horizon) has
\* 0 <= quantity_received <= quantity_ordered, its outcome is Full iff
\* received = ordered, Partial iff 0 < received < ordered, Missing iff
\* received = 0, and its receipt date is absent exactly when received = 0.
C2_FulfillmentConsistent ==
    \A i \in 1..Len(order_records) :
       LET r == order_records[i] IN
       Resolved(r) =>
          /\ 0 <= r.quantity_received
          /\ r.quantity_received <= r.quantity_ordered
          /\ outcomes[i] = "Full" <=> r.quantity_received = r.quantity_ordered
          /\ outcomes[i] = "Partial" <=>
                (0 < r.quantity_received /\ r.quantity_received < r.quantity_ordered)
          /\ outcomes[i] = "Missing" <=> r.quantity_received = 0
          /\ r.receipt_date = None <=> r.quantity_received = 0

\* C3: an order whose due date (order date + lead time, lead time in 14..90)
\* is strictly after the horizon is open: quantity_received = 0 and no receipt
\* date; an order due on or before the horizon takes the resolved branch.
C3_OpenOrder ==
    \A i \in 1..Len(order_records) :
       LET r == order_records[i] IN
       /\ r.due_date - r.order_date \in LEAD_MIN..LEAD_MAX
       /\ r.due_date > current_date =>
             /\ outcomes[i] = "Open"
             /\ r.quantity_received = 0
             /\ r.receipt_date = None
       /\ r.due_date <= current_date => outcomes[i] \in {"Full", "Partial", "Missing"}

\* an open order due the day after the horizon
C3_Witness ==
    \E i \in 1..Len(order_records) :
       /\ order_records[i].due_date = current_date + 1
       /\ outcomes[i] = "Open"
       /\ order_records[i].receipt_date = None

\* C4: for every BOM edge the child's tier is the parent's tier + 1; no edge
\* is a self-loop and the edges contain no cycle.
C4_AdjacentTiers ==
    /\ \A i \in 1..Len(bom_edges) :
          /\ TierOf(bom_edges[i].child_material_id)
                = TierOf(bom_edges[i].parent_material_id) + 1
          /\ bom_edges[i].child_material_id # bom_edges[i].parent_material_id
    /\ NoCycle

\* a finished BOM with a chain of two edges
C4_Witness ==
    /\ BomComplete
    /\ \E i, j \in 1..Len(bom_edges) :
          bom_edges[i].child_material_id = bom_edges[j].parent_material_id

\* C5: every iteration of the order loop appends one record and adds one to
\* the count, the count never passes TARGET_PO_COUNT, the loop ends, and at
\* its end there are exactly TARGET_PO_COUNT records.
C5_ExactCount ==
    /\ [](/\ Len(order_records) = current_po_count
          /\ po_id_counter = PO_ID_START + current_po_count
          /\ current_po_count <= TARGET_PO_COUNT
          /\ pc = "done" => Len(order_records) = TARGET_PO_COUNT)
    /\ [][order_records' # order_records =>
            /\ Len(order_records') = Len(order_records) + 1
            /\ current_po_count' = current_po_count + 1]_vars
    /\ <>(pc = "done")

\* the loop has ended after at least one order
C5_Witness ==
    /\ pc = "done"
    /\ TARGET_PO_COUNT >= 1
    /\ exported.order_records = TARGET_PO_COUNT

\* C6: with NUM_SUPPLIERS = 0 the supplier generation raises no error and
\* leaves an empty supplier set.
C6_ZeroSuppliersNoError ==
    (NUM_SUPPLIERS = 0 /\ pc # "start") =>
        /\ ~(pc = "error" /\ error.line \in 97..118)
        /\ suppliers = <<>>

\* C7 as claimed: a configuration error (tier probabilities that do not sum
\* to 1, an empty country-weight table) is raised while the supplier,
\* material, BOM, ASL and order collections are all still empty.
C7_DetectedBeforeGeneration ==
    (pc = "error" /\ error.line \in {108, 139}) => AllCollectionsEmpty

\* C7 as amended: the error is raised at the first draw that uses the invalid
\* value.  With an empty country-weight table no supplier is ever appended;
\* with invalid tier probabilities no material is ever appended, and the
\* error is raised after the supplier loop has appended all NUM_SUPPLIERS
\* suppliers; nothing of a later stage exists, nothing is exported, and no
\* step follows the error.
C7_DetectedAtFirstUse ==
    /\ [](/\ COUNTRY_WEIGHTS = <<>> => (suppliers = <<>> /\ LaterStagesEmpty)
          /\ SumSeq(TIER_DISTRIBUTION) # 100 => LaterStagesEmpty
          /\ (pc = "error" /\ error.line = 108) =>
                (suppliers = <<>> /\ LaterStagesEmpty)
          /\ (pc = "error" /\ error.line = 139) =>
                /\ NUM_SUPPLIERS >= 1
                /\ Len(suppliers) = NUM_SUPPLIERS
                /\ LaterStagesEmpty
          /\ pc = "error" => exported = NotExported)
    /\ [][pc # "error"]_vars

\* invalid tier probabilities found with the suppliers already generated
C7_Witness ==
    /\ pc = "error"
    /\ error = Raise("ValueError", 139)
    /\ suppliers # <<>>

\* C8: whenever the fan-out drawn for a parent exceeds the size of the child
\* tier's pool, at any transition, the builder takes the whole pool as the
\* children and does not fail.
C8_ClampAtEveryTransition ==
    (parent # None /\ num_children > Cardinality(IdsInTier(TierOf(parent) + 1))) =>
        /\ pc # "error"
        /\ Len(children) = Cardinality(IdsInTier(TierOf(parent) + 1))
        /\ ChildrenOf(parent) = IdsInTier(TierOf(parent) + 1)

\* C9: when the BOM builder has completed, every material of tier 0..3 whose
\* next tier has a material is the parent of at least one edge, a material
\* whose next tier is empty is the parent of none, and no parent-child pair
\* occurs twice.
C9_FanOut ==
    BomComplete =>
        /\ \A m \in Range(materials) :
              m.tier_level <= 3 =>
                 IF IdsInTier(m.tier_level + 1) # {}
                 THEN ChildrenOf(m.material_id) # {}
                 ELSE ChildrenOf(m.material_id) = {}
        /\ \A i, j \in 1..Len(bom_edges) :
              (i # j /\ bom_edges[i].parent_material_id = bom_edges[j].parent_material_id)
                 => bom_edges[i].child_material_id # bom_edges[j].child_material_id

\* a finished BOM with a skipped transition and a parent of two children
C9_Witness ==
    /\ BomComplete
    /\ \E m \in Range(materials) :
          m.tier_level <= 3 /\ IdsInTier(m.tier_level + 1) = {}
    /\ \E m \in Range(materials) : Cardinality(ChildrenOf(m.material_id)) >= 2

\* C10: at the tier 3 -> tier 4 transition the children of a parent come from
\* a smaller subset of the tier-4 pool: a tier-3 parent never has the whole
\* pool (of two or more materials) as its children.
C10_NexusSubset ==
    \A m \in Range(materials) :
       (m.tier_level = 3 /\ Cardinality(IdsInTier(4)) >= 2) =>
           ChildrenOf(m.material_id) # IdsInTier(4)

====
